---- MODULE Spec2Model ----
(***************************************************************************)
(* Sestra SDK gateway client (src/src/client.ts): the single local session *)
(* of a SestraClient, its session-management methods and its asynchronous  *)
(* HTTP operations.  An asynchronous method is two steps, the part before  *)
(* its `await this.fetch(...)` and the part after it, so that several      *)
(* calls can be in flight on one client instance.  The module also models  *)
(* the error classes of src/src/errors.ts, the merchant methods that the   *)
(* tests of test/merchant.test.ts call, and the Solana helper SestraWallet *)
(* (wallet.ts, kept in src/unnamed/part_000) with its polling loop.        *)
(***************************************************************************)
EXTENDS Integers, Sequences, FiniteSets, Bags, TLC

\* ---------------------------------------------------------------- bounds
MaxInFlight == 2     \* calls that can be suspended at their await at one time
MaxTime == 1         \* the clock runs over 0..MaxTime
MaxCalls == 2        \* largest calls_remaining a caller or server supplies
MaxTimeout == 5      \* largest timeout of waitForConfirmation, in half seconds
MaxStart == 2        \* latest time a waitForConfirmation starts, in half seconds

\* ------------------------------------------------------ JavaScript values
Undef == "<undefined>"                 \* a missing string property
NaN == -1                              \* time value of an Invalid Date
Truthy(s) == s # Undef /\ s # ""       \* truthiness of a string | undefined
Or(a, b) == IF Truthy(a) THEN a ELSE b \* a || b on strings
OrNum(a, b) == IF a # 0 THEN a ELSE b  \* a || b on numbers
Has(r, f) == f \in DOMAIN r
Get(r, f) == IF Has(r, f) THEN r[f] ELSE Undef

\* new Date(s).getTime(): the ISO strings "T1", "T2" denote the instants 1
\* and 2, any other string is an Invalid Date
ParseDate(s) ==
    CASE s = "T1" -> 1
      [] s = "T2" -> 2
      [] OTHER -> NaN

\* a > b on Date values: false as soon as one side is NaN
DateGT(a, b) == a # NaN /\ b # NaN /\ a > b

\* ------------------------------------------------------------- constants
NoSessionMsg == "No active session. Call verifyPayment() or simulatePayment() first."
SessionExpiredMsg == "Session expired or no calls remaining."
RequestFailedMsg == "Request failed"
UseSimulateMsg == "Use simulatePayment() for sandbox mode"
SandboxOnlyMsg == "simulatePayment() only works in sandbox mode. Set sandbox: true in config."
VerifyFailedMsg == "Payment verification failed"
SimulateFailedMsg == "Payment simulation failed"
NetworkErrorMsg == "Network error"
CreateFailedMsg == "Failed to create payment"
NotFoundMsg == "Payment not found"
CancelFailedMsg == "Failed to cancel payment"

\* every throw site of client.ts is `throw new Error(message)`
ErrorClass == "Error"

\* the delay of `setTimeout(resolve, 1000)` in waitForConfirmation, in ms
PollInterval == 1000

\* ------------------------------------------------------------ input sets
RefIds == {"r1"}
DateInputs == {"", "T1"}
TokenInputs == {"", "t1"}
CallInputs == -1..MaxCalls

\* the Session interface (types.ts); a session absent is NoSession
NoSession == [none |-> TRUE]
SessionInputs ==
    [token : TokenInputs, reference_id : RefIds,
     expires_at : DateInputs, calls_remaining : CallInputs]

VARIABLES
    sandbox,         \* config.sandbox
    sessionToken,    \* this.sessionToken (Undef when not set)
    currentSession,  \* this.currentSession (NoSession when not set)
    now,             \* the wall clock read by new Date()
    inflight,        \* the bag of calls suspended at their await
    installed,       \* calls_remaining the current session was installed with
    served,          \* successful request() calls counted on the current session
    last,            \* what the step just taken did and returned
    config,          \* this.config, its sandbox flag apart
    wallet           \* the call a SestraWallet is executing

vars == <<sandbox, sessionToken, currentSession, now, inflight, installed, served, last,
          config, wallet>>

\* ---------------------------------------------------------- configuration
DefaultBaseUrl == "https://api.sestralabs.xyz"

\* the SestraConfig objects a caller passes to the constructor (types.ts
\* 5-38): every option is optional
ConfigKeys == {"baseUrl", "sestraBaseUrl", "serviceBaseUrl", "apiKey"}
ConfigValue(k) ==
    CASE k = "baseUrl" -> "https://legacy.test.com"
      [] k = "sestraBaseUrl" -> "https://api.test.com"
      [] k = "serviceBaseUrl" -> "https://service.test.com"
      [] k = "apiKey" -> "sk_test"
ConfigInputs == {[k \in K |-> ConfigValue(k)] : K \in SUBSET ConfigKeys}
NoOptions == [k \in {} |-> ""]

\* `this.config = { ...DEFAULT_CONFIG, ...config }`, client.ts 19-22 and 30
Configure(options) == options @@ [baseUrl |-> DefaultBaseUrl]

\* a SestraWallet that is executing no call
WalletIdle == [op |-> "idle", pc |-> "done"]

\* ------------------------------------------------------ session management
\* hasActiveSession() comparing the expiry with >= instead of >
hasActiveSessionNotStrict ==
    IF currentSession = NoSession THEN FALSE
    ELSE LET t == ParseDate(currentSession.expires_at) IN
         (DateGT(t, now) \/ (t # NaN /\ t = now))
         /\ currentSession.calls_remaining > 0

\* hasActiveSession() comparing calls_remaining with >= 0 instead of > 0
hasActiveSessionZeroCalls ==
    IF currentSession = NoSession THEN FALSE
    ELSE DateGT(ParseDate(currentSession.expires_at), now)
         /\ currentSession.calls_remaining >= 0

\* hasActiveSession(), client.ts 63-67
hasActiveSession ==
    IF currentSession = NoSession THEN FALSE
    ELSE DateGT(ParseDate(currentSession.expires_at), now)
         /\ currentSession.calls_remaining > 0

Init ==
    /\ config = Configure(NoOptions)
    /\ wallet = WalletIdle
    /\ sandbox \in BOOLEAN
    /\ sessionToken = Undef
    /\ currentSession = NoSession
    /\ now = 0
    /\ inflight = EmptyBag
    /\ installed = 0
    /\ served = 0
    /\ last = [op |-> "new"]

\* setSession() storing the record without its token
InstallRecordOnly(s) ==
    /\ currentSession' = s
    /\ installed' = s.calls_remaining
    /\ served' = 0
    /\ UNCHANGED sessionToken

\* the two assignments of setSession, client.ts 40-43
Install(s) ==
    /\ sessionToken' = s.token
    /\ currentSession' = s
    /\ installed' = s.calls_remaining
    /\ served' = 0

setSession ==
    \E s \in SessionInputs :
        /\ Install(s)
        /\ last' = [op |-> "setSession", arg |-> s]
        /\ UNCHANGED <<config, wallet, sandbox, now, inflight>>

\* clearSession() dropping the session record but not the token
clearSessionKeepsToken ==
    /\ currentSession' = NoSession
    /\ installed' = 0
    /\ served' = 0
    /\ last' = [op |-> "clearSession"]
    /\ UNCHANGED <<config, wallet, sandbox, sessionToken, now, inflight>>

getSession ==
    /\ last' = [op |-> "getSession", ret |-> currentSession]
    /\ UNCHANGED <<config, wallet, sandbox, sessionToken, currentSession, now, inflight, installed, served>>

clearSession ==
    /\ sessionToken' = Undef
    /\ currentSession' = NoSession
    /\ installed' = 0
    /\ served' = 0
    /\ last' = [op |-> "clearSession"]
    /\ UNCHANGED <<config, wallet, sandbox, now, inflight>>

hasActiveSessionCall ==
    /\ last' = [op |-> "hasActiveSession", ret |-> hasActiveSession]
    /\ UNCHANGED <<config, wallet, sandbox, sessionToken, currentSession, now, inflight, installed, served>>

\* time passes between any two steps
Tick ==
    /\ now < MaxTime
    /\ now' = now + 1
    /\ last' = [op |-> "tick"]
    /\ UNCHANGED <<config, wallet, sandbox, sessionToken, currentSession, inflight, installed, served>>

\* a call is suspended at `await this.fetch(...)`, and resumed by its response
CanStart == BagCardinality(inflight) < MaxInFlight
Suspend(c) == inflight (+) SetToBag({c})
\* a completing call sent out once more
ResumeRetrying(c) == inflight
Resume(c) == inflight (-) SetToBag({c})

\* ------------------------------------------------------- the HTTP adapter
\* What the network can do with one call: the global fetch() or the body's
\* json() rejects (with an Error carrying a message, or with something that
\* is no Error), or a response arrives with a status and a JSON body.
NullBody == [type |-> "null"]
\* the JSON body `false`: falsy as null is, but with properties to read
FalseBody == [type |-> "boolean", val |-> FALSE]
FalsyBodies == {NullBody, FalseBody}
Obj(v) == [type |-> "object", val |-> v]
Arr(v) == [type |-> "array", val |-> v]

Throws ==
    {[kind |-> "throw", isError |-> TRUE, message |-> "ECONNREFUSED"],
     [kind |-> "throw", isError |-> TRUE, message |-> ""],
     [kind |-> "throw", isError |-> FALSE, message |-> ""]}

ErrorBodies ==
    {NullBody, Obj([message |-> "m"]), Obj([error |-> "srv"]),
     Obj([detail |-> "det"]), Obj([error |-> "", detail |-> "det"])}

NonOk == [kind : {"response"}, ok : {FALSE}, body : ErrorBodies]
Ok(bodies) == [kind : {"response"}, ok : {TRUE}, body : bodies]

NullPropMsg == "Cannot read properties of null (reading 'error')"

\* private fetch<T>(), client.ts 264-291: never throws, returns {data} or {error}
fetch(raw) ==
    IF raw.kind = "throw"
    THEN [error |-> IF raw.isError THEN raw.message ELSE NetworkErrorMsg]
    ELSE IF ~raw.ok
    THEN IF raw.body.type = "null" THEN [error |-> NullPropMsg]
         ELSE IF raw.body.type = "array" THEN [error |-> RequestFailedMsg]
         ELSE [error |-> Or(Get(raw.body.val, "error"),
                            Or(Get(raw.body.val, "detail"), RequestFailedMsg))]
    ELSE [data |-> raw.body]

\* `response.data` is truthy: present and neither null nor false
DataOK(response) == Has(response, "data") /\ response.data \notin FalsyBodies

\* a method throwing the adapter's error string with nothing to fall back to
ThrownWithoutFallback(response, fallback) == Get(response, "error")

\* the message of `throw new Error(response.error || fallback)`
Thrown(response, fallback) == Or(Get(response, "error"), fallback)

\* -------------------------------------------------------------- endpoints
\* a path is the sequence of its segments; the two families of payment paths
ProductionPayments == <<"api", "v1", "payments">>
SandboxPayments == <<"api", "v1", "sandbox", "payments">>

\* the endpoint each method builds (client.ts 78-80, 98-100, 121, 147-149,
\* 171-173, 197)
createPaymentEndpoint == IF sandbox THEN SandboxPayments ELSE ProductionPayments
getPaymentStatusEndpoint(referenceId) ==
    IF sandbox THEN SandboxPayments \o <<referenceId>>
    ELSE ProductionPayments \o <<referenceId>>
verifyPaymentEndpoint(referenceId) == ProductionPayments \o <<referenceId, "verify">>
\* cancelPayment() not consulting the sandbox flag
cancelPaymentEndpointProduction(referenceId) ==
    ProductionPayments \o <<referenceId, "cancel">>

cancelPaymentEndpoint(referenceId) ==
    IF sandbox THEN SandboxPayments \o <<referenceId, "cancel">>
    ELSE ProductionPayments \o <<referenceId, "cancel">>
listPaymentsEndpoint == IF sandbox THEN SandboxPayments ELSE ProductionPayments
simulatePaymentEndpoint(referenceId) == SandboxPayments \o <<referenceId, "simulate">>

\* the paths a caller of request() asks for
RequestEndpoints == {<<"api", "data">>}

\* `${this.config.baseUrl}${endpoint}`, client.ts 268: the base, then the path
Url(endpoint) == <<config.baseUrl>> \o endpoint

\* ------------------------------------------------------------------ headers
\* a header set is a function from header names to values, as the object
\* literal of RequestInit.headers is
NoHeaders == <<>>
JsonType == "application/json"

\* the header sets a caller of request() passes in `options.headers`
HeaderInputs ==
    {NoHeaders,
     ("X-Custom" :> "1") @@ ("X-Session-Token" :> "forged"),
     ("Content-Type" :> "text/plain")}

\* { ...a, ...b }: the properties of b win over those of a
Spread(a, b) == b @@ a

\* request() spreading the caller's headers over the session token
RequestHeadersCallerWins(headers) ==
    Spread("X-Session-Token" :> sessionToken, headers)

\* { ...options.headers, 'X-Session-Token': this.sessionToken }, client.ts
\* 242-245
RequestHeaders(headers) ==
    Spread(headers, "X-Session-Token" :> sessionToken)

\* { 'Content-Type': 'application/json', ...options.headers }, client.ts
\* 272-275
FetchHeaders(headers) ==
    Spread("Content-Type" :> JsonType, headers)

\* ---------------------------------------------------------------- request
RequestBodies == FalsyBodies \cup {Obj([data |-> "protected content"])}
RequestRaw == Throws \cup NonOk \cup Ok(RequestBodies)

\* the two guards of request() in the other order
RequestPrecheckSwapped ==
    IF ~hasActiveSession THEN SessionExpiredMsg
    ELSE IF ~Truthy(sessionToken) THEN NoSessionMsg
    ELSE ""

\* request() without its second guard
RequestPrecheckTokenOnly == IF ~Truthy(sessionToken) THEN NoSessionMsg ELSE ""

\* the two guards of request(), client.ts 232-238: the message thrown, or
\* "" when both pass
RequestPrecheck ==
    IF ~Truthy(sessionToken) THEN NoSessionMsg
    ELSE IF ~hasActiveSession THEN SessionExpiredMsg
    ELSE ""

\* request() forgetting to count the call
DecrementForgotten(s) == s

\* request() decrementing only a counter that is still positive
DecrementGuarded(s) ==
    IF s = NoSession \/ s.calls_remaining <= 0 THEN s
    ELSE [s EXCEPT !.calls_remaining = @ - 1]

\* `if (this.currentSession) this.currentSession.calls_remaining--`, 253-255
Decrement(s) ==
    IF s = NoSession THEN s ELSE [s EXCEPT !.calls_remaining = @ - 1]

\* request() counting the call only against the session whose token it sent
CountedIfSent(c) ==
    IF currentSession # NoSession /\ currentSession.token = c.token
    THEN Decrement(currentSession) ELSE currentSession

\* the session record after the call c of request() succeeded: the decrement
\* reads `this.currentSession` when the call completes (client.ts 253-255),
\* whatever token the call carried
Counted(c) == Decrement(currentSession)

\* request() up to its await: the guards, then the call goes out carrying
\* the session token read at this point (client.ts 232-246)
requestStart ==
    /\ CanStart
    /\ IF RequestPrecheck # ""
       THEN /\ last' = [op |-> "request", outcome |-> "throw", class |-> ErrorClass,
                        error |-> RequestPrecheck, net |-> FALSE]
            /\ UNCHANGED inflight
       ELSE /\ inflight' = Suspend([op |-> "request", token |-> sessionToken])
            /\ \E endpoint \in RequestEndpoints, headers \in HeaderInputs :
                 last' = [op |-> "fetch", by |-> "request", url |-> Url(endpoint),
                          token |-> sessionToken, arg |-> headers,
                          headers |-> FetchHeaders(RequestHeaders(headers))]
    /\ UNCHANGED <<config, wallet, sandbox, sessionToken, currentSession, now, installed, served>>

\* request() after its await (client.ts 248-257)
requestReturn(c) ==
    /\ c.op = "request"
    /\ \E raw \in RequestRaw :
        LET response == fetch(raw) IN
        IF ~DataOK(response)
        THEN /\ last' = [op |-> "request", outcome |-> "throw", class |-> ErrorClass,
                         error |-> Thrown(response, RequestFailedMsg), raw |-> raw,
                         net |-> TRUE]
             /\ UNCHANGED <<currentSession, served>>
        ELSE /\ currentSession' = Counted(c)
             /\ served' = IF currentSession = NoSession THEN served ELSE served + 1
             /\ last' = [op |-> "request", outcome |-> "ok",
                         value |-> response.data.val, net |-> TRUE,
                         token |-> c.token]
    /\ inflight' = Resume(c)
    /\ UNCHANGED <<config, wallet, sandbox, sessionToken, now, installed>>

\* ---------------------------------------------------------- verifyPayment
\* VerifyPaymentResponse bodies (types.ts 100-107); a server may also omit
\* the token
VerifyObjects ==
    [success : BOOLEAN, reference_id : RefIds, token : {"t2"},
     expires_at : {"T1"}, calls_remaining : 0..MaxCalls]
    \cup [success : BOOLEAN, reference_id : RefIds,
          expires_at : {"T1"}, calls_remaining : {MaxCalls}]
VerifyRaw == Throws \cup NonOk \cup Ok(FalsyBodies \cup {Obj(d) : d \in VerifyObjects})

\* verifyPayment() storing an empty token when the response has none
VerifySessionEmptyToken(d) ==
    [token |-> Or(Get(d, "token"), ""), reference_id |-> d.reference_id,
     expires_at |-> d.expires_at, calls_remaining |-> d.calls_remaining]

\* the session literal of verifyPayment, client.ts 133-138
VerifySession(d) ==
    [token |-> Get(d, "token"), reference_id |-> d.reference_id,
     expires_at |-> d.expires_at, calls_remaining |-> d.calls_remaining]

\* verifyPayment() without its mode guard
VerifyModeErrorForgotten == ""

\* the mode guard of verifyPayment, client.ts 116-118: the message thrown,
\* or "" when the guard passes
VerifyModeError == IF sandbox THEN UseSimulateMsg ELSE ""

\* verifyPayment() up to its await (client.ts 115-126)
verifyPaymentStart ==
    /\ CanStart
    /\ IF VerifyModeError # ""
       THEN /\ last' = [op |-> "verifyPayment", outcome |-> "throw", class |-> ErrorClass,
                        error |-> VerifyModeError, net |-> FALSE]
            /\ UNCHANGED inflight
       ELSE /\ inflight' = Suspend([op |-> "verifyPayment"])
            /\ \E referenceId \in RefIds :
                 last' = [op |-> "fetch", by |-> "verifyPayment",
                          url |-> Url(verifyPaymentEndpoint(referenceId)),
                          headers |-> FetchHeaders(NoHeaders)]
    /\ UNCHANGED <<config, wallet, sandbox, sessionToken, currentSession, now, installed, served>>

\* verifyPayment() after its await (client.ts 128-140)
verifyPaymentReturn(c) ==
    /\ c.op = "verifyPayment"
    /\ \E raw \in VerifyRaw :
        LET response == fetch(raw) IN
        IF ~DataOK(response)
        THEN /\ last' = [op |-> "verifyPayment", outcome |-> "throw", class |-> ErrorClass,
                         error |-> Thrown(response, VerifyFailedMsg), raw |-> raw,
                         net |-> TRUE]
             /\ UNCHANGED <<sessionToken, currentSession, installed, served>>
        ELSE /\ Install(VerifySession(response.data.val))
             /\ last' = [op |-> "verifyPayment", outcome |-> "ok", raw |-> raw,
                         value |-> response.data.val, net |-> TRUE]
    /\ inflight' = Resume(c)
    /\ UNCHANGED <<config, wallet, sandbox, now>>

\* -------------------------------------------------------- simulatePayment
\* SimulatePaymentResponse bodies (types.ts 138-147): token, expires_at and
\* calls_remaining are optional
SimulateObjects ==
    [success : BOOLEAN, reference_id : RefIds]
    \cup [success : BOOLEAN, reference_id : RefIds, token : {"", "t1"}]
    \cup [success : BOOLEAN, reference_id : RefIds, token : {"t2"},
          expires_at : DateInputs, calls_remaining : 0..MaxCalls]
SimulateRaw ==
    Throws \cup NonOk \cup Ok(FalsyBodies \cup {Obj(d) : d \in SimulateObjects})

\* simulatePayment() installing whenever a token came back
SimulateInstallsTokenOnly(d) == Truthy(Get(d, "token"))

\* `response.data.success && response.data.token`, client.ts 209
SimulateInstalls(d) == d.success /\ Truthy(Get(d, "token"))

\* simulatePayment() dropping the remaining calls of the response
SimulateSessionNoCalls(d) ==
    [token |-> d.token, reference_id |-> d.reference_id,
     expires_at |-> Or(Get(d, "expires_at"), ""), calls_remaining |-> 0]

\* the session literal of simulatePayment, client.ts 210-215
SimulateSession(d) ==
    [token |-> d.token, reference_id |-> d.reference_id,
     expires_at |-> Or(Get(d, "expires_at"), ""),
     calls_remaining |-> IF Has(d, "calls_remaining")
                         THEN OrNum(d.calls_remaining, 0) ELSE 0]

\* the mode guard of simulatePayment, client.ts 192-194
SimulateModeError == IF ~sandbox THEN SandboxOnlyMsg ELSE ""

\* simulatePayment() up to its await (client.ts 188-202)
simulatePaymentStart ==
    /\ CanStart
    /\ IF SimulateModeError # ""
       THEN /\ last' = [op |-> "simulatePayment", outcome |-> "throw", class |-> ErrorClass,
                        error |-> SimulateModeError, net |-> FALSE]
            /\ UNCHANGED inflight
       ELSE /\ inflight' = Suspend([op |-> "simulatePayment"])
            /\ \E referenceId \in RefIds :
                 last' = [op |-> "fetch", by |-> "simulatePayment",
                          url |-> Url(simulatePaymentEndpoint(referenceId)),
                          headers |-> FetchHeaders(NoHeaders)]
    /\ UNCHANGED <<config, wallet, sandbox, sessionToken, currentSession, now, installed, served>>

\* simulatePayment() after its await (client.ts 204-218)
simulatePaymentReturn(c) ==
    /\ c.op = "simulatePayment"
    /\ \E raw \in SimulateRaw :
        LET response == fetch(raw) IN
        IF ~DataOK(response)
        THEN /\ last' = [op |-> "simulatePayment", outcome |-> "throw", class |-> ErrorClass,
                         error |-> Thrown(response, SimulateFailedMsg), raw |-> raw,
                         net |-> TRUE]
             /\ UNCHANGED <<sessionToken, currentSession, installed, served>>
        ELSE /\ IF SimulateInstalls(response.data.val)
                THEN Install(SimulateSession(response.data.val))
                ELSE UNCHANGED <<sessionToken, currentSession, installed, served>>
             /\ last' = [op |-> "simulatePayment", outcome |-> "ok", raw |-> raw,
                         value |-> response.data.val, net |-> TRUE]
    /\ inflight' = Resume(c)
    /\ UNCHANGED <<config, wallet, sandbox, now>>

\* ----------------------------------------------------------- listPayments
Snapshots == [reference_id : {"r1", "r2"}, status : {"pending"}]
ListBodies ==
    FalsyBodies \cup {Arr(<<>>)}
    \cup {Arr(<<a>>) : a \in Snapshots}
    \cup {Arr(s) : s \in {q \in Snapshots \X Snapshots : q[1] # q[2]}}
ListRaw == Throws \cup NonOk \cup Ok(ListBodies)

\* listPayments() up to its await (client.ts 165-175)
listPaymentsStart ==
    /\ CanStart
    /\ inflight' = Suspend([op |-> "listPayments"])
    /\ last' = [op |-> "fetch", by |-> "listPayments", url |-> Url(listPaymentsEndpoint),
                headers |-> FetchHeaders(NoHeaders)]
    /\ UNCHANGED <<config, wallet, sandbox, sessionToken, currentSession, now, installed, served>>

\* listPayments() throwing on a missing body as the other methods do
ListOutcomeThrowing(response) ==
    IF DataOK(response)
    THEN [outcome |-> "ok", value |-> response.data.val]
    ELSE [outcome |-> "throw", class |-> ErrorClass, error |-> Thrown(response, RequestFailedMsg)]

\* `return response.data || []`, client.ts 177: the call's outcome
ListOutcome(response) ==
    [outcome |-> "ok",
     value |-> IF DataOK(response) THEN response.data.val ELSE <<>>]

\* listPayments() after its await (client.ts 177)
listPaymentsReturn(c) ==
    /\ c.op = "listPayments"
    /\ \E raw \in ListRaw :
        last' = [op |-> "listPayments", raw |-> raw, net |-> TRUE]
                @@ ListOutcome(fetch(raw))
    /\ inflight' = Resume(c)
    /\ UNCHANGED <<config, wallet, sandbox, sessionToken, currentSession, now, installed, served>>

\* ------------------------------ createPayment, getPaymentStatus, cancelPayment
\* one body of each response type (types.ts 78-84, 109-120, 122-128)
CreateBodies == FalsyBodies \cup {Obj([success |-> TRUE, reference_id |-> "r1", status |-> "pending"])}
StatusBodies == FalsyBodies \cup {Obj([reference_id |-> "r1", status |-> "active"])}
CancelBodies == FalsyBodies \cup {Obj([success |-> TRUE, reference_id |-> "r1", status |-> "cancelled"])}
CreateRaw == Throws \cup NonOk \cup Ok(CreateBodies)
StatusRaw == Throws \cup NonOk \cup Ok(StatusBodies)
CancelRaw == Throws \cup NonOk \cup Ok(CancelBodies)

\* a method returning the adapter's result whatever it is
DataOrThrowReturning(response, fallback) ==
    [outcome |-> "ok",
     value |-> IF DataOK(response) THEN response.data.val ELSE Undef]

\* `if (!response.data) throw new Error(response.error || fallback);
\* return response.data`, client.ts 87-91, 104-108, 155-159
DataOrThrow(response, fallback) ==
    IF ~DataOK(response)
    THEN [outcome |-> "throw", class |-> ErrorClass, error |-> Thrown(response, fallback)]
    ELSE [outcome |-> "ok", value |-> response.data.val]

\* createPayment() up to its await (client.ts 77-85)
createPaymentStart ==
    /\ CanStart
    /\ inflight' = Suspend([op |-> "createPayment"])
    /\ last' = [op |-> "fetch", by |-> "createPayment", url |-> Url(createPaymentEndpoint),
                headers |-> FetchHeaders(NoHeaders)]
    /\ UNCHANGED <<config, wallet, sandbox, sessionToken, currentSession, now, installed, served>>

\* createPayment() after its await (client.ts 87-91)
createPaymentReturn(c) ==
    /\ c.op = "createPayment"
    /\ \E raw \in CreateRaw :
        last' = [op |-> "createPayment", raw |-> raw, net |-> TRUE]
                @@ DataOrThrow(fetch(raw), CreateFailedMsg)
    /\ inflight' = Resume(c)
    /\ UNCHANGED <<config, wallet, sandbox, sessionToken, currentSession, now, installed, served>>

\* getPaymentStatus() up to its await (client.ts 97-102)
getPaymentStatusStart ==
    /\ CanStart
    /\ inflight' = Suspend([op |-> "getPaymentStatus"])
    /\ \E referenceId \in RefIds :
         last' = [op |-> "fetch", by |-> "getPaymentStatus",
                  url |-> Url(getPaymentStatusEndpoint(referenceId)),
                  headers |-> FetchHeaders(NoHeaders)]
    /\ UNCHANGED <<config, wallet, sandbox, sessionToken, currentSession, now, installed, served>>

\* getPaymentStatus() after its await (client.ts 104-108)
getPaymentStatusReturn(c) ==
    /\ c.op = "getPaymentStatus"
    /\ \E raw \in StatusRaw :
        last' = [op |-> "getPaymentStatus", raw |-> raw, net |-> TRUE]
                @@ DataOrThrow(fetch(raw), NotFoundMsg)
    /\ inflight' = Resume(c)
    /\ UNCHANGED <<config, wallet, sandbox, sessionToken, currentSession, now, installed, served>>

\* cancelPayment() up to its await (client.ts 146-153)
cancelPaymentStart ==
    /\ CanStart
    /\ inflight' = Suspend([op |-> "cancelPayment"])
    /\ \E referenceId \in RefIds :
         last' = [op |-> "fetch", by |-> "cancelPayment",
                  url |-> Url(cancelPaymentEndpoint(referenceId)),
                  headers |-> FetchHeaders(NoHeaders)]
    /\ UNCHANGED <<config, wallet, sandbox, sessionToken, currentSession, now, installed, served>>

\* cancelPayment() after its await (client.ts 155-159)
cancelPaymentReturn(c) ==
    /\ c.op = "cancelPayment"
    /\ \E raw \in CancelRaw :
        last' = [op |-> "cancelPayment", raw |-> raw, net |-> TRUE]
                @@ DataOrThrow(fetch(raw), CancelFailedMsg)
    /\ inflight' = Resume(c)
    /\ UNCHANGED <<config, wallet, sandbox, sessionToken, currentSession, now, installed, served>>

\* a synchronous method, or an asynchronous one up to its await
ClientCall ==
    \/ setSession
    \/ getSession
    \/ clearSession
    \/ hasActiveSessionCall
    \/ requestStart
    \/ verifyPaymentStart
    \/ simulatePaymentStart
    \/ listPaymentsStart

\* a suspended call continues with what the network answered
Resumption ==
    \/ \E c \in BagToSet(inflight) : requestReturn(c)
    \/ \E c \in BagToSet(inflight) : verifyPaymentReturn(c)
    \/ \E c \in BagToSet(inflight) : simulatePaymentReturn(c)
    \/ \E c \in BagToSet(inflight) : listPaymentsReturn(c)

\* the same for the three methods that neither read nor write the session
PaymentResumption ==
    \/ \E c \in BagToSet(inflight) : createPaymentReturn(c)
    \/ \E c \in BagToSet(inflight) : getPaymentStatusReturn(c)
    \/ \E c \in BagToSet(inflight) : cancelPaymentReturn(c)

Next == ClientCall \/ Resumption \/ Tick

\* any number of call sites up to MaxInFlight use at once the methods that
\* read or write the session, and listPayments; createPayment,
\* getPaymentStatus and cancelPayment touch no field of the client, so that
\* interleaving them adds nothing to what a session goes through
Spec == Init /\ [][Next]_vars

\* sequential use of every method: the caller awaits each call before making
\* the next one
NoneInFlight == inflight = EmptyBag
SeqNext ==
    \/ NoneInFlight /\ setSession
    \/ NoneInFlight /\ getSession
    \/ NoneInFlight /\ clearSession
    \/ NoneInFlight /\ hasActiveSessionCall
    \/ NoneInFlight /\ requestStart
    \/ NoneInFlight /\ verifyPaymentStart
    \/ NoneInFlight /\ simulatePaymentStart
    \/ NoneInFlight /\ listPaymentsStart
    \/ NoneInFlight /\ createPaymentStart
    \/ NoneInFlight /\ getPaymentStatusStart
    \/ NoneInFlight /\ cancelPaymentStart
    \/ Resumption
    \/ PaymentResumption
    \/ Tick
SeqSpec == Init /\ [][SeqNext]_vars

\* ---------------------------------------------------- a configured client
\* the client constructed with any of the configurations
ConfigInit ==
    /\ config \in {Configure(options) : options \in ConfigInputs}
    /\ wallet = WalletIdle
    /\ sandbox \in BOOLEAN
    /\ sessionToken = Undef
    /\ currentSession = NoSession
    /\ now = 0
    /\ inflight = EmptyBag
    /\ installed = 0
    /\ served = 0
    /\ last = [op |-> "new"]

\* sequential use of every method of a client configured in any way
ConfigSpec == ConfigInit /\ [][SeqNext]_vars

\* ---------------------------------------------------- merchant operations
\* The merchant methods of the client are not part of client.ts; they are
\* modelled from their description and from test/merchant.test.ts.
MerchantOps ==
    {"getMerchantUser", "getMerchantStats", "listPolicies", "createPolicy",
     "deletePolicy", "getTransactions", "getEarnings"}
ApiKeyRequiredMsg == "API Key is required for Merchant API"
MerchantBodies == {Obj([id |-> "user-123"])}
MerchantRaw == Throws \cup NonOk \cup Ok(MerchantBodies)

\* a merchant method not checking for the API key
MerchantPrecheckForgotten == ""

\* the guard of a merchant method: the message thrown, or "" when an API key
\* is configured
MerchantPrecheck ==
    IF ~Truthy(Get(config, "apiKey")) THEN ApiKeyRequiredMsg ELSE ""

\* a merchant method up to its await
merchantStart(op) ==
    /\ CanStart
    /\ IF MerchantPrecheck # ""
       THEN /\ last' = [op |-> op, outcome |-> "throw", class |-> ErrorClass,
                        error |-> MerchantPrecheck, net |-> FALSE]
            /\ UNCHANGED inflight
       ELSE /\ inflight' = Suspend([op |-> op])
            /\ last' = [op |-> "fetch", by |-> op,
                        apiKeyHeader |-> Get(config, "apiKey")]
    /\ UNCHANGED <<config, wallet, sandbox, sessionToken, currentSession, now, installed, served>>

\* a merchant method after its await
merchantReturn(c) ==
    /\ c.op \in MerchantOps
    /\ \E raw \in MerchantRaw :
        LET response == fetch(raw) IN
        last' = IF Has(response, "error")
                THEN [op |-> c.op, outcome |-> "throw", class |-> ErrorClass,
                      error |-> response.error, raw |-> raw, net |-> TRUE]
                ELSE [op |-> c.op, outcome |-> "ok", raw |-> raw,
                      value |-> response.data.val, net |-> TRUE]
    /\ inflight' = Resume(c)
    /\ UNCHANGED <<config, wallet, sandbox, sessionToken, currentSession, now, installed, served>>

MerchantNext ==
    \/ \E op \in MerchantOps : merchantStart(op)
    \/ \E c \in BagToSet(inflight) : merchantReturn(c)

\* the merchant methods of a client configured in any way
MerchantSpec == ConfigInit /\ [][MerchantNext]_vars

\* ------------------------------------------------------------ SestraWallet
\* The wallet (wallet.ts) keeps no state of its own between calls, so that one
\* call at a time shows all it does.  `wallet` is the call being executed:
\* its method, its position (pc), the number of calls made to the network
\* connection (rpc) and, when pc is "done", its outcome.  In the wallet's
\* specification `now` is Date.now() in milliseconds.
clientVars ==
    <<config, sandbox, sessionToken, currentSession, inflight, installed, served, last>>
WalletFree == wallet.pc = "done"

\* what a call to the connection or to web3.js can throw
WalletThrows ==
    {[isError |-> TRUE, message |-> "failed to get recent blockhash"],
     [isError |-> TRUE, message |-> ""],
     [isError |-> FALSE, message |-> ""]}

\* recipient addresses: `new PublicKey(address)` throws on a string that is
\* no base58 encoding of 32 bytes
ValidAddresses == {"11111111111111111111111111111112"}
Addresses == ValidAddresses \cup {"invalid-address"}
InvalidKeyError == [isError |-> TRUE, message |-> "Invalid public key input"]

\* createPaymentTransaction() querying the network whatever the recipient is
PublicKeyNeverThrows(address) == FALSE

\* `new PublicKey(recipientAddress)` throws, wallet.ts (part_000) 189
PublicKeyThrows(address) == address \notin ValidAddresses

\* sendPayment() without its catch block
SendOutcomeRethrowing(thrown) == [outcome |-> "throw", error |-> thrown]

\* the catch block of sendPayment, part_000 227-230
SendOutcome(thrown) ==
    [outcome |-> "ok",
     result |-> [success |-> FALSE,
                 error |-> IF thrown.isError THEN thrown.message
                           ELSE "Payment failed"]]

\* an exception leaving the call being executed: createPaymentTransaction
\* (and createPaymentFromDetails, which returns its promise) lets it through,
\* sendPayment and sendPaymentFromDetails catch it
Raise(op, thrown) ==
    IF op \in {"createPaymentTransaction", "createPaymentFromDetails"}
    THEN [outcome |-> "throw", error |-> thrown]
    ELSE SendOutcome(thrown)

\* createPaymentTransaction() up to `await getLatestBlockhash()`, part_000
\* 177-200, called as `op` with this recipient: the instructions are built,
\* then the connection is asked for a blockhash
BuildTransaction(op, recipientAddress) ==
    IF PublicKeyThrows(recipientAddress)
    THEN [op |-> op, pc |-> "done", recipient |-> recipientAddress, rpc |-> 0]
         @@ Raise(op, InvalidKeyError)
    ELSE [op |-> op, pc |-> "getLatestBlockhash",
          recipient |-> recipientAddress, rpc |-> 1]

\* the payers, amounts in lamports and memos a caller passes
Payers == {"payer1", "payer2"}
Amounts == {1, 1000000000}
Memos == {"", "payment-ref-123"}
PaymentParams ==
    [recipientAddress : Addresses, amountLamports : Amounts, memo : Memos]
\* the fields of PaymentDetails that the wallet reads
PaymentDetailsInputs ==
    [recipient_address : Addresses, amount_lamports : Amounts, reference : Memos]

\* createPaymentTransaction() adding the memo before the transfer
InstructionsMemoFirst(payerPublicKey, params) ==
    <<[program |-> "memo", data |-> params.memo, signers |-> <<payerPublicKey>>],
      [program |-> "system.transfer", fromPubkey |-> payerPublicKey,
       toPubkey |-> params.recipientAddress, lamports |-> params.amountLamports]>>

\* the two `transaction.add(...)` of createPaymentTransaction, part_000
\* 186-197: SystemProgram.transfer, then createMemoInstruction
Instructions(payerPublicKey, params) ==
    <<[program |-> "system.transfer", fromPubkey |-> payerPublicKey,
       toPubkey |-> params.recipientAddress, lamports |-> params.amountLamports],
      [program |-> "memo", data |-> params.memo, signers |-> <<payerPublicKey>>]>>

\* createPaymentTransaction(payerPublicKey, params) up to its await, part_000
\* 177-200, called as `op`
StartTransaction(op, payerPublicKey, params) ==
    LET call == BuildTransaction(op, params.recipientAddress)
                @@ [payer |-> payerPublicKey, params |-> params]
    IN IF call.pc = "done" THEN call
       ELSE call @@ [instructions |-> Instructions(payerPublicKey, params)]

\* the arguments createPaymentFromDetails hands on, part_000 167-171
ParamsFromDetails(paymentDetails) ==
    [recipientAddress |-> paymentDetails.recipient_address,
     amountLamports |-> paymentDetails.amount_lamports,
     memo |-> paymentDetails.reference]

createPaymentTransaction ==
    /\ WalletFree
    /\ \E payerPublicKey \in Payers, params \in PaymentParams :
         wallet' = StartTransaction("createPaymentTransaction", payerPublicKey, params)
    /\ UNCHANGED now
    /\ UNCHANGED clientVars

\* createPaymentFromDetails(payerPublicKey, paymentDetails), part_000 163-172
createPaymentFromDetails ==
    /\ WalletFree
    /\ \E payerPublicKey \in Payers, paymentDetails \in PaymentDetailsInputs :
         wallet' = StartTransaction("createPaymentFromDetails", payerPublicKey,
                                    ParamsFromDetails(paymentDetails))
                   @@ [details |-> paymentDetails]
    /\ UNCHANGED now
    /\ UNCHANGED clientVars

\* sendPayment() up to the first await, part_000 210-218
sendPayment ==
    /\ WalletFree
    /\ \E recipientAddress \in Addresses :
         wallet' = BuildTransaction("sendPayment", recipientAddress)
    /\ UNCHANGED now
    /\ UNCHANGED clientVars

\* sendPaymentFromDetails(), part_000 236-245: sendPayment with the fields of
\* the payment details
sendPaymentFromDetails ==
    /\ WalletFree
    /\ \E recipientAddress \in Addresses :
         wallet' = BuildTransaction("sendPaymentFromDetails", recipientAddress)
    /\ UNCHANGED now
    /\ UNCHANGED clientVars

\* getLatestBlockhash() answers: createPaymentTransaction returns the
\* transaction (part_000 200-205), and sendPayment goes on to sign and submit
\* it (part_000 220-224)
getLatestBlockhashReturn ==
    /\ wallet.pc = "getLatestBlockhash"
    /\ \/ \E thrown \in WalletThrows :
             wallet' = [op |-> wallet.op, pc |-> "done",
                        recipient |-> wallet.recipient, rpc |-> wallet.rpc]
                       @@ Raise(wallet.op, thrown)
       \/ wallet' =
             IF wallet.op \in {"createPaymentTransaction", "createPaymentFromDetails"}
             THEN [wallet EXCEPT !.pc = "done"]
                  @@ [outcome |-> "ok",
                      result |-> [instructions |-> wallet.instructions,
                                  recentBlockhash |-> "blockhash",
                                  feePayer |-> wallet.payer]]
             ELSE [wallet EXCEPT !.pc = "sendAndConfirmTransaction", !.rpc = @ + 1]
    /\ UNCHANGED now
    /\ UNCHANGED clientVars

\* sendAndConfirmTransaction() answers, part_000 220-230
sendAndConfirmTransactionReturn ==
    /\ wallet.pc = "sendAndConfirmTransaction"
    /\ \/ \E thrown \in WalletThrows :
             wallet' = [op |-> wallet.op, pc |-> "done",
                        recipient |-> wallet.recipient, rpc |-> wallet.rpc]
                       @@ Raise(wallet.op, thrown)
       \/ wallet' = [op |-> wallet.op, pc |-> "done",
                     recipient |-> wallet.recipient, rpc |-> wallet.rpc,
                     outcome |-> "ok",
                     result |-> [success |-> TRUE, txHash |-> "signature"]]
    /\ UNCHANGED now
    /\ UNCHANGED clientVars

\* ------------------------------------------------------ waitForConfirmation
Half == PollInterval \div 2
Timeouts == {k * Half : k \in 0..MaxTimeout}

\* what getSignatureStatus() reports: `status.value` is null, or it has a
\* confirmationStatus
Statuses == {"null", "processed", "confirmed", "finalized"}
\* how long a status query takes, and how late a timer fires
QueryTimes == {0, Half}
TimerDelays == {0, Half}

\* the test of part_000 272-273
IsConfirmed(status) == status \in {"finalized", "confirmed"}

\* waitForConfirmation() going on for one more poll at the deadline
TimeLeftInclusive == now - wallet.start <= wallet.timeout

\* waitForConfirmation() measuring the time from the epoch, not from its call
TimeLeftFromEpoch == now < wallet.timeout

\* the loop condition `Date.now() - start < timeout`, part_000 269
TimeLeft == now - wallet.start < wallet.timeout

\* waitForConfirmation(txHash, timeout) up to its loop, part_000 266-267
waitForConfirmation ==
    /\ WalletFree
    /\ now <= MaxStart * Half
    /\ \E timeout \in Timeouts :
        wallet' = [op |-> "waitForConfirmation", pc |-> "while", timeout |-> timeout,
                   start |-> now, rpc |-> 0, observed |-> <<>>, answeredAt |-> now]
    /\ UNCHANGED now
    /\ UNCHANGED clientVars

\* the loop condition is evaluated (part_000 269): a status query goes out,
\* or the call returns false (part_000 280)
waitLoop ==
    /\ wallet.op = "waitForConfirmation" /\ wallet.pc = "while"
    /\ wallet' =
         IF TimeLeft
         THEN [wallet EXCEPT !.pc = "getSignatureStatus", !.rpc = @ + 1]
         ELSE [wallet EXCEPT !.pc = "done"]
              @@ [outcome |-> "ok", result |-> FALSE, returnedAt |-> now]
    /\ UNCHANGED now
    /\ UNCHANGED clientVars

\* getSignatureStatus() answers after some time (part_000 270-275): the call
\* returns true, or starts its timer; a query that throws ends the call
getSignatureStatusReturn ==
    /\ wallet.op = "waitForConfirmation" /\ wallet.pc = "getSignatureStatus"
    /\ \E d \in QueryTimes :
        /\ now' = now + d
        /\ \/ \E thrown \in WalletThrows :
                 wallet' = [wallet EXCEPT !.pc = "done"]
                           @@ [outcome |-> "throw", error |-> thrown,
                               returnedAt |-> now + d]
           \/ \E status \in Statuses :
                 wallet' =
                   IF IsConfirmed(status)
                   THEN [wallet EXCEPT !.pc = "done",
                                       !.observed = Append(@, status)]
                        @@ [outcome |-> "ok", result |-> TRUE,
                            returnedAt |-> now + d]
                   ELSE [wallet EXCEPT !.pc = "setTimeout",
                                       !.observed = Append(@, status),
                                       !.answeredAt = now + d]
    /\ UNCHANGED clientVars

\* the timer of `setTimeout(resolve, 1000)` fires, no sooner than asked
\* (part_000 277)
setTimeoutFires ==
    /\ wallet.op = "waitForConfirmation" /\ wallet.pc = "setTimeout"
    /\ \E late \in TimerDelays : now' = now + PollInterval + late
    /\ wallet' = [wallet EXCEPT !.pc = "while"]
    /\ UNCHANGED clientVars

\* ---------------------------------------------------- isTransactionConfirmed
\* isTransactionConfirmed() letting the exception of its query through
ConfirmedCatchRethrowing(thrown) == [outcome |-> "throw", error |-> thrown]

\* `catch { return false; }`, part_000 291-293
ConfirmedCatch(thrown) == [outcome |-> "ok", result |-> FALSE]

\* isTransactionConfirmed(txHash) up to its await, part_000 286-288
isTransactionConfirmed ==
    /\ WalletFree
    /\ wallet' = [op |-> "isTransactionConfirmed", pc |-> "getSignatureStatus",
                  rpc |-> 1]
    /\ UNCHANGED now
    /\ UNCHANGED clientVars

\* getSignatureStatus() answers or throws, part_000 288-293
isTransactionConfirmedReturn ==
    /\ wallet.op = "isTransactionConfirmed" /\ wallet.pc = "getSignatureStatus"
    /\ \/ \E thrown \in WalletThrows :
             wallet' = [op |-> wallet.op, pc |-> "done", rpc |-> wallet.rpc,
                        caught |-> thrown] @@ ConfirmedCatch(thrown)
       \/ \E status \in Statuses :
             wallet' = [op |-> wallet.op, pc |-> "done", rpc |-> wallet.rpc,
                        status |-> status, outcome |-> "ok",
                        result |-> (status = "finalized" \/ status = "confirmed")]
    /\ UNCHANGED now
    /\ UNCHANGED clientVars

\* time passes while the wallet does nothing
WalletTick ==
    /\ WalletFree
    /\ now < MaxStart * Half
    /\ now' = now + Half
    /\ UNCHANGED wallet
    /\ UNCHANGED clientVars

WalletNext ==
    \/ createPaymentTransaction
    \/ createPaymentFromDetails
    \/ sendPayment
    \/ sendPaymentFromDetails
    \/ getLatestBlockhashReturn
    \/ sendAndConfirmTransactionReturn
    \/ waitForConfirmation
    \/ waitLoop
    \/ getSignatureStatusReturn
    \/ setTimeoutFires
    \/ isTransactionConfirmed
    \/ isTransactionConfirmedReturn
    \/ WalletTick

\* the calls made one after the other on a SestraWallet
WalletSpec == Init /\ [][WalletNext]_vars

\* the same when every pending query is answered, every timer fires and the
\* event loop goes on running the call
WalletLiveSpec ==
    /\ WalletSpec
    /\ WF_vars(waitLoop)
    /\ WF_vars(getSignatureStatusReturn)
    /\ WF_vars(setTimeoutFires)

\* ------------------------------------------------------ the error classes
\* errors.ts: the class each class extends
ErrorClasses ==
    {"SestraError", "PaymentCreationError", "PaymentVerificationError",
     "PaymentNotFoundError", "SessionError", "NoSessionError",
     "SessionExpiredError", "ApiError", "NetworkError", "SandboxModeError",
     "WalletTransactionError", "ValidationError"}
Extends(class) ==
    CASE class = "SestraError" -> "Error"
      [] class \in {"NoSessionError", "SessionExpiredError"} -> "SessionError"
      [] class \in ErrorClasses -> "SestraError"
      [] OTHER -> "Object"

\* `error instanceof ancestor` for an error constructed by `new class(...)`
RECURSIVE InstanceOf(_, _)
InstanceOf(class, ancestor) ==
    \/ class = ancestor
    \/ class # "Object" /\ InstanceOf(Extends(class), ancestor)

\* isSestraError(), errors.ts 165-167
isSestraError(class) == InstanceOf(class, "SestraError")

\* the constructors of errors.ts: the fields of the error each one builds
\* (statusCode 0 stands for an undefined statusCode)
NewSestraError(message, code, statusCode) ==
    [class |-> "SestraError", name |-> "SestraError", message |-> message,
     code |-> code, statusCode |-> statusCode]
Named(error, class) == [error EXCEPT !.class = class, !.name = class]
NewPaymentCreationError(message, statusCode) ==
    Named(NewSestraError(message, "PAYMENT_CREATION_FAILED", statusCode),
          "PaymentCreationError")
NewPaymentVerificationError(message, statusCode) ==
    Named(NewSestraError(message, "PAYMENT_VERIFICATION_FAILED", statusCode),
          "PaymentVerificationError")
\* `Payment not found: ${referenceId}`
NotFoundMessage(referenceId) ==
    CASE referenceId = "r1" -> "Payment not found: r1"
      [] OTHER -> "Payment not found: ?"
NewPaymentNotFoundError(referenceId) ==
    Named(NewSestraError(NotFoundMessage(referenceId), "PAYMENT_NOT_FOUND", 404),
          "PaymentNotFoundError")
NewSessionError(message) ==
    Named(NewSestraError(message, "SESSION_ERROR", 401), "SessionError")
NewNoSessionError == Named(NewSessionError(NoSessionMsg), "NoSessionError")
NewSessionExpiredError ==
    Named(NewSessionError(SessionExpiredMsg), "SessionExpiredError")
NewApiError(message, statusCode) ==
    Named(NewSestraError(message, "API_ERROR", statusCode), "ApiError")
NewNetworkError(message) ==
    Named(NewSestraError(message, "NETWORK_ERROR", 0), "NetworkError")
NewSandboxModeError(message) ==
    Named(NewSestraError(message, "SANDBOX_MODE_ERROR", 400), "SandboxModeError")
NewWalletTransactionError(message) ==
    Named(NewSestraError(message, "WALLET_TRANSACTION_ERROR", 0),
          "WalletTransactionError")
NewValidationError(message) ==
    Named(NewSestraError(message, "VALIDATION_ERROR", 400), "ValidationError")

\* the arguments a caller constructs an error with
ErrorMessages == {"", "Transaction failed", "Session invalid", "boom"}
ErrorStatusCodes == {0, 400, 404, 500, 503}
CallerCodes == {"CUSTOM", "SESSION_ERROR"}

\* `new C(...)` for every class C and every choice of arguments
NewErrors ==
    {NewSestraError(m, c, sc) :
        m \in ErrorMessages, c \in CallerCodes, sc \in ErrorStatusCodes}
    \cup {NewPaymentCreationError(m, sc) : m \in ErrorMessages, sc \in ErrorStatusCodes}
    \cup {NewPaymentVerificationError(m, sc) :
            m \in ErrorMessages, sc \in ErrorStatusCodes}
    \cup {NewPaymentNotFoundError(r) : r \in RefIds}
    \cup {NewSessionError(m) : m \in ErrorMessages}
    \cup {NewNoSessionError, NewSessionExpiredError}
    \cup {NewApiError(m, sc) : m \in ErrorMessages, sc \in ErrorStatusCodes}
    \cup {NewNetworkError(m) : m \in ErrorMessages}
    \cup {NewSandboxModeError(m) : m \in ErrorMessages}
    \cup {NewWalletTransactionError(m) : m \in ErrorMessages}
    \cup {NewValidationError(m) : m \in ErrorMessages}

\* an application constructs an error of the SDK
newError ==
    /\ \E error \in NewErrors : last' = [op |-> "newError", error |-> error]
    /\ UNCHANGED <<config, wallet, sandbox, sessionToken, currentSession, now,
                   inflight, installed, served>>

\* the errors an application can construct
ErrorSpec == Init /\ [][newError]_vars

\* ------------------------------------------------------------ properties
Calls == currentSession.calls_remaining
SessionSet == currentSession # NoSession

\* the instant a session's expires_at denotes lies strictly after `now`
ExpiresLater == \E t \in (now + 1)..(MaxTime + 2) : ParseDate(currentSession.expires_at) = t

\* the step just taken was request() failing a precondition / sending its call
RequestRefused == last.op = "request" /\ last.outcome = "throw" /\ ~last.net
RequestSent == last.op = "fetch" /\ last.by = "request"

\* C1: hasActiveSession() returns true exactly when a session is set, its
\* expires_at is strictly later than now and its calls_remaining is > 0;
\* it returns false when either fails and when no session is set.
C1_HasActiveSessionIff ==
    last.op = "hasActiveSession" =>
        (last.ret <=> (SessionSet /\ ExpiresLater /\ Calls > 0))

\* an unexpired session with calls left is reported active
C1_Witness ==
    /\ last.op = "hasActiveSession" /\ last.ret
    /\ SessionSet /\ Calls = MaxCalls /\ now = 0

\* C2: the step that completes a request() changes calls_remaining of the
\* current session by exactly -1 when the call succeeds and leaves the whole
\* session (token, reference id, expiry, counter) unchanged when it fails;
\* nothing is decremented before the response (the sending step changes
\* nothing).
C2_Step ==
    /\ (last'.op = "request" /\ last'.outcome = "ok") =>
         /\ sessionToken' = sessionToken
         /\ IF SessionSet
            THEN currentSession' = [currentSession EXCEPT !.calls_remaining = @ - 1]
            ELSE currentSession' = currentSession
    /\ (last'.op = "request" /\ last'.outcome = "throw") =>
         (currentSession' = currentSession /\ sessionToken' = sessionToken)
    /\ RequestSent' =>
         (currentSession' = currentSession /\ sessionToken' = sessionToken)
C2_DecrementOnSuccessOnly == [][C2_Step]_vars

\* a successful call has taken one call off a session installed with two
C2_Witness ==
    /\ last.op = "request" /\ last.outcome = "ok"
    /\ SessionSet /\ installed = 2 /\ Calls = 1 /\ served = 1

\* C3: request() first fails with the no-session error when no session token
\* is set, otherwise fails with the session-expired error when the session
\* is not active, and neither failure makes a network call; only when both
\* checks pass is a call sent.
C3_Step ==
    (RequestRefused' \/ RequestSent') =>
        IF ~Truthy(sessionToken)
        THEN /\ RequestRefused' /\ last'.error = NoSessionMsg
             /\ inflight' = inflight
        ELSE IF ~(SessionSet /\ ExpiresLater /\ Calls > 0)
        THEN /\ RequestRefused' /\ last'.error = SessionExpiredMsg
             /\ inflight' = inflight
        ELSE /\ RequestSent'
             /\ BagCardinality(inflight') = BagCardinality(inflight) + 1
C3_PreconditionOrder == [][C3_Step]_vars

\* a token is set but the session has run out: the second check refuses
C3_Witness ==
    /\ RequestRefused /\ last.error = SessionExpiredMsg
    /\ Truthy(sessionToken) /\ SessionSet /\ Calls = 0

\* C4: under sequential use a session installed unexpired with N > 0 calls
\* stays active, while unexpired, until exactly N request() calls have
\* succeeded; after the N-th success hasActiveSession() is false and every
\* further request() is refused with the session-expired error without a
\* network call, until a new session is installed.
C4_ExactlyNCalls ==
    (SessionSet /\ installed > 0) =>
        /\ served <= installed
        /\ Calls = installed - served
        /\ (served < installed /\ ExpiresLater) => hasActiveSession
        /\ served = installed =>
             /\ ~hasActiveSession
             /\ ~RequestSent
             /\ last.op = "request" =>
                  \/ last.outcome = "ok"
                  \/ RequestRefused /\ last.error = SessionExpiredMsg

\* a request refused after both calls of a two-call session were used
C4_Witness ==
    /\ SessionSet /\ installed = 2 /\ served = 2
    /\ RequestRefused /\ last.error = SessionExpiredMsg

\* C5: with two request() calls in flight on one client nothing guards the
\* counter: a request is sent on the session's state alone however many
\* requests are already in flight, and a successful response decrements a
\* counter that is already 0 or below, so a one-call session can serve two
\* calls and end at -1.
C5_Step ==
    /\ ( /\ RequestRefused' \/ RequestSent'
         /\ Truthy(sessionToken) /\ hasActiveSession
         /\ \E c \in BagToSet(inflight) : c.op = "request" ) => RequestSent'
    /\ ( /\ last'.op = "request" /\ last'.outcome = "ok"
         /\ SessionSet /\ Calls <= 0 ) => currentSession'.calls_remaining = Calls - 1
C5_UnguardedRace == [][C5_Step]_vars

\* a session installed with one call has served two and stands at -1
C5_Witness ==
    /\ SessionSet /\ installed = 1 /\ served = 2 /\ Calls = -1
    /\ last.op = "request" /\ last.outcome = "ok"

\* C6: under sequential use calls_remaining of the current session never
\* goes below 0, provided the session was installed with calls_remaining >= 0.
C6_NonNegative == (SessionSet /\ installed >= 0) => Calls >= 0

\* the last call of a one-call session has just been used
C6_Witness ==
    /\ SessionSet /\ installed = 1 /\ Calls = 0
    /\ last.op = "request" /\ last.outcome = "ok"

\* C7: verifyPayment with sandbox=true and simulatePayment with
\* sandbox=false always fail, make no network call and leave the session
\* unchanged.
C7_Step ==
    /\ (sandbox /\ (last'.op = "verifyPayment"
                     \/ (last'.op = "fetch" /\ last'.by = "verifyPayment"))) =>
         /\ last'.op = "verifyPayment" /\ last'.outcome = "throw" /\ ~last'.net
         /\ UNCHANGED <<sessionToken, currentSession, inflight>>
    /\ (~sandbox /\ (last'.op = "simulatePayment"
                      \/ (last'.op = "fetch" /\ last'.by = "simulatePayment"))) =>
         /\ last'.op = "simulatePayment" /\ last'.outcome = "throw" /\ ~last'.net
         /\ UNCHANGED <<sessionToken, currentSession, inflight>>
C7_ModeMismatch == [][C7_Step]_vars

\* verifyPayment refused on a sandbox client that holds a session
C7_Witness ==
    /\ sandbox /\ last.op = "verifyPayment" /\ last.outcome = "throw"
    /\ last.error = UseSimulateMsg /\ SessionSet

\* the step just taken was a verifyPayment / simulatePayment that installed a
\* session from the response in last.value
Installed ==
    /\ last.op \in {"verifyPayment", "simulatePayment"} /\ last.outcome = "ok"
    /\ last.op = "simulatePayment" =>
         (last.value.success /\ Truthy(Get(last.value, "token")))

\* C8 as stated: after a successful verifyPayment, or a simulatePayment whose
\* response has success and a token, getSession() returns exactly the
\* response's token, reference id, expiry and remaining calls, and the call
\* returned the full response.
C8_SessionMirrorsResponse ==
    Installed =>
        /\ last.value = last.raw.body.val
        /\ SessionSet
        /\ currentSession.token = Get(last.value, "token")
        /\ currentSession.reference_id = last.value.reference_id
        /\ currentSession.expires_at = Get(last.value, "expires_at")
        /\ Has(last.value, "calls_remaining")
        /\ Calls = last.value.calls_remaining

\* C8 amended: as above, except that a simulatePayment response without an
\* expiry (or with an empty one) installs the expiry "" and one without
\* remaining calls installs calls_remaining 0.
C8_SessionFromResponse ==
    Installed =>
        /\ last.value = last.raw.body.val
        /\ SessionSet
        /\ sessionToken = currentSession.token
        /\ currentSession.token = Get(last.value, "token")
        /\ currentSession.reference_id = last.value.reference_id
        /\ currentSession.expires_at =
             IF Has(last.value, "expires_at") THEN last.value.expires_at ELSE ""
        /\ Calls = IF Has(last.value, "calls_remaining")
                   THEN last.value.calls_remaining ELSE 0
        /\ installed = Calls /\ served = 0

\* a simulated payment installed an active session with MaxCalls calls
C8_Witness ==
    /\ Installed /\ last.op = "simulatePayment"
    /\ Has(last.value, "calls_remaining") /\ Calls = MaxCalls
    /\ hasActiveSession

\* C9: a simulatePayment whose response indicates failure (success false or
\* no token), or that fails with a server or transport error, leaves the
\* session as it was: none if none was set, the same one otherwise.
C9_Step ==
    ( /\ last'.op = "simulatePayment"
      /\ \/ last'.outcome = "throw"
         \/ ~last'.value.success
         \/ ~Truthy(Get(last'.value, "token")) ) =>
        UNCHANGED <<sessionToken, currentSession>>
C9_FailedSimulationKeepsSession == [][C9_Step]_vars

\* a failed simulation returned while a session was set
C9_Witness ==
    /\ last.op = "simulatePayment" /\ last.outcome = "ok"
    /\ ~last.value.success /\ Has(last.value, "token")
    /\ SessionSet /\ currentSession.token # last.value.token

\* C10: listPayments never throws: it returns the server's sequence
\* unchanged when a 2xx response carries one, and the empty sequence when
\* the server returns null or no data.
C10_ListNeverThrows ==
    last.op = "listPayments" =>
        /\ last.outcome = "ok"
        /\ last.value =
             IF last.raw.kind = "response" /\ last.raw.ok
                /\ last.raw.body.type = "array"
             THEN last.raw.body.val ELSE <<>>

\* a 2xx response with a null body gave the empty sequence
C10_Witness ==
    /\ last.op = "listPayments" /\ last.outcome = "ok"
    /\ last.raw.kind = "response" /\ last.raw.ok /\ last.raw.body.type = "null"
    /\ last.value = <<>>

\* the methods that perform an HTTP call
HttpMethods ==
    {"createPayment", "getPaymentStatus", "verifyPayment", "simulatePayment",
     "cancelPayment", "listPayments", "request"}

\* the step just taken completed an HTTP method whose adapter call came back
\* with a normalized error, a non-2xx response or a transport failure
AdapterFailed ==
    /\ last.op \in HttpMethods
    /\ Has(last, "raw")
    /\ Has(fetch(last.raw), "error")
AdapterError == fetch(last.raw).error

\* the message a method falls back to
Fallback(op) ==
    CASE op = "createPayment" -> CreateFailedMsg
      [] op = "getPaymentStatus" -> NotFoundMsg
      [] op = "verifyPayment" -> VerifyFailedMsg
      [] op = "simulatePayment" -> SimulateFailedMsg
      [] op = "cancelPayment" -> CancelFailedMsg
      [] op = "request" -> RequestFailedMsg

\* C11 as stated: every HTTP method, listPayments included, turns a
\* normalized adapter error into a thrown error carrying that error's
\* message, and none returns normally after one.
C11_EveryMethodThrows ==
    AdapterFailed => (last.outcome = "throw" /\ last.error = AdapterError)

\* C11: after a normalized adapter error createPayment, getPaymentStatus,
\* verifyPayment, simulatePayment, cancelPayment and request throw an error
\* whose message is the adapter's error string, or the method's own fallback
\* message when that string is empty; listPayments returns the empty list.
C11_ErrorThrownExceptList ==
    AdapterFailed =>
        IF last.op = "listPayments"
        THEN last.outcome = "ok" /\ last.value = <<>>
        ELSE /\ last.outcome = "throw"
             /\ last.error = IF AdapterError # "" THEN AdapterError
                             ELSE Fallback(last.op)

\* createPayment threw the error string of a non-2xx response
C11_Witness ==
    /\ last.op = "createPayment" /\ last.outcome = "throw"
    /\ last.raw.kind = "response" /\ ~last.raw.ok
    /\ last.error = "srv"

\* the path of the call the step just taken sent out
Path == Tail(last.url)
StartsWith(p, q) == Len(p) >= Len(q) /\ SubSeq(p, 1, Len(q)) = q
Contains(p, x) == \E i \in 1..Len(p) : p[i] = x
InSandboxFamily(p) == StartsWith(p, <<"api", "v1", "sandbox", "payments">>)
InProductionFamily(p) ==
    StartsWith(p, <<"api", "v1", "payments">>) /\ ~Contains(p, "sandbox")

\* C12: the path a call targets is decided by the sandbox flag alone: every
\* call of createPayment, getPaymentStatus, cancelPayment and listPayments
\* goes to /api/v1/sandbox/payments... when sandbox is true and to
\* /api/v1/payments... (no "sandbox" in it) when it is false; simulatePayment
\* only goes to the sandbox family and verifyPayment only to the production
\* family.
C12_EndpointBySandboxFlag ==
    last.op = "fetch" =>
        /\ last.by \in {"createPayment", "getPaymentStatus", "cancelPayment",
                        "listPayments"} =>
             IF sandbox THEN InSandboxFamily(Path) ELSE InProductionFamily(Path)
        /\ last.by = "simulatePayment" => InSandboxFamily(Path)
        /\ last.by = "verifyPayment" => InProductionFamily(Path)

\* a sandbox client sent a cancellation to the sandbox family
C12_Witness ==
    /\ sandbox /\ last.op = "fetch" /\ last.by = "cancelPayment"
    /\ Path = <<"api", "v1", "sandbox", "payments", "r1", "cancel">>

\* the step being taken is request() called (its part before the await)
RequestCalled == RequestRefused' \/ RequestSent'

\* C13: the client holds one session and no history.  The session after
\* setSession(s) is s, after a successful verifyPayment it is the session of
\* the response, after a simulatePayment that installs (success and a token)
\* it carries the response's token and reference id, each whatever was held
\* before, and getSession() returns the session held; the calls that follow
\* clearSession() find nothing: getSession() returns no session,
\* hasActiveSession() returns false and request() fails with the no-session
\* error.
C13_Step ==
    /\ last'.op = "setSession" => currentSession' = last'.arg
    /\ (last'.op = "verifyPayment" /\ last'.outcome = "ok") =>
         currentSession' =
             [token |-> Get(last'.value, "token"),
              reference_id |-> last'.value.reference_id,
              expires_at |-> last'.value.expires_at,
              calls_remaining |-> last'.value.calls_remaining]
    /\ ( /\ last'.op = "simulatePayment" /\ last'.outcome = "ok"
         /\ last'.value.success /\ Truthy(Get(last'.value, "token")) ) =>
         /\ currentSession'.token = last'.value.token
         /\ currentSession'.reference_id = last'.value.reference_id
    /\ last'.op = "getSession" =>
         (last'.ret = currentSession /\ currentSession' = currentSession)
    /\ last'.op = "clearSession" =>
         (currentSession' = NoSession /\ sessionToken' = Undef)
    /\ last.op = "clearSession" =>
         /\ last'.op = "getSession" => last'.ret = NoSession
         /\ last'.op = "hasActiveSession" => ~last'.ret
         /\ RequestCalled =>
              (RequestRefused' /\ last'.error = NoSessionMsg)
C13_SingleSession == [][C13_Step]_vars

\* getSession() returned the session a server response installed
C13_Witness ==
    /\ last.op = "getSession" /\ last.ret # NoSession
    /\ last.ret.token = "t2" /\ last.ret = currentSession

\* the step just taken ended a client method with an exception
Threw == Has(last, "outcome") /\ last.outcome = "throw"

\* C14 as stated: every exception a client method raises is an error of the
\* SDK's classes, recognised by isSestraError: a failed createPayment raises
\* PaymentCreationError, verifyPayment in sandbox mode and simulatePayment
\* outside it raise SandboxModeError, request() without a token raises
\* NoSessionError and request() on an inactive session SessionExpiredError.
C14_TypedErrors ==
    Threw =>
        /\ isSestraError(last.class)
        /\ last.op = "createPayment" => InstanceOf(last.class, "PaymentCreationError")
        /\ (last.op \in {"verifyPayment", "simulatePayment"} /\ ~last.net) =>
             InstanceOf(last.class, "SandboxModeError")
        /\ (RequestRefused /\ last.error = NoSessionMsg) =>
             InstanceOf(last.class, "NoSessionError")
        /\ (RequestRefused /\ last.error = SessionExpiredMsg) =>
             InstanceOf(last.class, "SessionExpiredError")

\* verifyPayment refused by the mode guard of a sandbox client
C14_Witness ==
    /\ sandbox /\ last.op = "verifyPayment" /\ Threw /\ ~last.net
    /\ last.error = UseSimulateMsg /\ ~isSestraError(last.class)

ApiKeyConfigured == Truthy(Get(config, "apiKey"))

\* C15: a merchant method of a client without an API key fails at once with
\* the error saying that an API key is required, and sends nothing; a
\* merchant call that is sent carries the configured key in its X-API-Key
\* header.
C15_ApiKeyRequired ==
    /\ ~ApiKeyConfigured =>
         /\ inflight = EmptyBag
         /\ last.op # "fetch"
         /\ last.op \in MerchantOps =>
              (Threw /\ ~last.net /\ last.error = ApiKeyRequiredMsg)
    /\ (last.op = "fetch" /\ last.by \in MerchantOps) =>
         (ApiKeyConfigured /\ last.apiKeyHeader = config.apiKey)

\* getEarnings was refused on a client that has no API key
C15_Witness ==
    /\ ~ApiKeyConfigured /\ last.op = "getEarnings" /\ Threw
    /\ last.error = ApiKeyRequiredMsg /\ inflight = EmptyBag

\* the base URL of the call the step just taken sent out
Base == Head(last.url)
GatewayBase == Or(Get(config, "sestraBaseUrl"), DefaultBaseUrl)

\* C16 as stated: the calls of the payment methods go to the configured
\* sestraBaseUrl (https://api.sestralabs.xyz when none is configured), and
\* request() goes to serviceBaseUrl when one is configured and to the
\* gateway base URL otherwise.
C16_BaseUrlFromConfig ==
    last.op = "fetch" =>
        Base = IF last.by = "request"
               THEN Or(Get(config, "serviceBaseUrl"), GatewayBase)
               ELSE GatewayBase

\* a client configured with a sestraBaseUrl sent createPayment to the default
\* base URL
C16_Witness ==
    /\ Has(config, "sestraBaseUrl") /\ ~Has(config, "serviceBaseUrl")
    /\ last.op = "fetch" /\ last.by = "createPayment"
    /\ Base = DefaultBaseUrl /\ Base # config.sestraBaseUrl

\* the wallet has just completed a call of one of these methods
Completed(ops) == wallet.op \in ops /\ wallet.pc = "done"
SendMethods == {"sendPayment", "sendPaymentFromDetails"}

\* C17: sendPayment and sendPaymentFromDetails never raise: whatever is
\* thrown while the transaction is built (an invalid recipient address
\* included), signed or submitted, the call returns a result, which has
\* success true, a txHash and no error, or success false, an error and no
\* txHash.
C17_SendNeverRaises ==
    Completed(SendMethods) =>
        /\ wallet.outcome = "ok"
        /\ IF wallet.result.success
           THEN Has(wallet.result, "txHash") /\ ~Has(wallet.result, "error")
           ELSE Has(wallet.result, "error") /\ ~Has(wallet.result, "txHash")

\* sendPayment returned a failure for an invalid recipient address
C17_Witness ==
    /\ Completed({"sendPayment"}) /\ wallet.recipient \notin ValidAddresses
    /\ wallet.outcome = "ok" /\ ~wallet.result.success
    /\ wallet.result.error = "Invalid public key input"

Waiting == wallet.op = "waitForConfirmation"
Returned(value) == wallet.pc = "done" /\ wallet.outcome = "ok" /\ wallet.result = value
Confirming(i) == wallet.observed[i] \in {"confirmed", "finalized"}

\* C18: waitForConfirmation returns true as soon as a poll observes
\* "confirmed" or "finalized" (the poll that observes it is the last one, and
\* true is what is returned), and only then; it returns false only when no
\* poll observed such a status and the time since the call is at least the
\* timeout; and a poll that follows another one is sent at least one second
\* after that one was answered.
C18_TrueOnConfirmedFalseAtTimeout ==
    Waiting =>
        /\ \A i \in 1..Len(wallet.observed) :
             Confirming(i) => (i = Len(wallet.observed) /\ Returned(TRUE))
        /\ Returned(TRUE) =>
             (wallet.observed # <<>> /\ Confirming(Len(wallet.observed)))
        /\ Returned(FALSE) =>
             /\ \A i \in 1..Len(wallet.observed) : ~Confirming(i)
             /\ wallet.returnedAt - wallet.start >= wallet.timeout
        /\ (wallet.pc = "getSignatureStatus" /\ wallet.observed # <<>>) =>
             now - wallet.answeredAt >= 1000

\* a call started at 500 ms with a timeout of 2000 ms returned false after two
\* polls that saw nothing
C18_Witness ==
    /\ Waiting /\ Returned(FALSE) /\ wallet.start = 500 /\ wallet.timeout = 2000
    /\ Len(wallet.observed) = 2
    /\ wallet.returnedAt - wallet.start >= 2000

\* timeout / 1000 rounded up
MaxPolls == (wallet.timeout + 999) \div 1000
Running == Waiting /\ wallet.pc # "done"

\* C19: when every status query is answered, every timer fires and the call
\* goes on being run, a call of waitForConfirmation always comes to its end,
\* and at no point has it sent more status queries than its timeout divided
\* by the one-second interval, rounded up.
C19_TerminatesWithinBound ==
    /\ [](Waiting => wallet.rpc <= MaxPolls)
    /\ Running ~> (Waiting /\ wallet.pc = "done")

\* a call with a timeout of 2500 ms gave up after its third poll
C19_Witness ==
    /\ Waiting /\ Returned(FALSE) /\ wallet.timeout = 2500
    /\ wallet.rpc = 3 /\ Len(wallet.observed) = 3

\* C20: createPaymentTransaction called with a recipient that is no valid
\* address fails before the connection is used: the call ends by throwing
\* and no call to the connection, the blockhash query included, has been made.
C20_InvalidRecipientFailsOffline ==
    (wallet.op = "createPaymentTransaction"
     /\ wallet.recipient \notin ValidAddresses) =>
        /\ wallet.pc = "done"
        /\ wallet.outcome = "throw"
        /\ wallet.rpc = 0

\* createPaymentTransaction threw on an invalid recipient address
C20_Witness ==
    /\ Completed({"createPaymentTransaction"})
    /\ wallet.recipient = "invalid-address"
    /\ wallet.outcome = "throw" /\ wallet.error = InvalidKeyError /\ wallet.rpc = 0

\* the Code column of the error table of the API reference (API.md 563-578)
DocumentedCode(class) ==
    CASE class = "PaymentCreationError" -> "PAYMENT_CREATION_FAILED"
      [] class = "PaymentVerificationError" -> "PAYMENT_VERIFICATION_FAILED"
      [] class = "PaymentNotFoundError" -> "PAYMENT_NOT_FOUND"
      [] class = "SessionError" -> "SESSION_ERROR"
      [] class = "NoSessionError" -> "NO_SESSION"
      [] class = "SessionExpiredError" -> "SESSION_EXPIRED"
      [] class = "ApiError" -> "API_ERROR"
      [] class = "NetworkError" -> "NETWORK_ERROR"
      [] class = "SandboxModeError" -> "SANDBOX_MODE_ERROR"
      [] class = "WalletTransactionError" -> "WALLET_TRANSACTION_FAILED"
      [] class = "ValidationError" -> "VALIDATION_ERROR"
Constructed == last.op = "newError"

\* C21 as stated: an error of each class of the SDK, however constructed,
\* carries the code that the error table of the API reference gives for its
\* class.
C21_DocumentedCodes ==
    (Constructed /\ last.error.class # "SestraError") =>
        last.error.code = DocumentedCode(last.error.class)

\* a NoSessionError was constructed, and its code is that of SessionError
C21_Witness ==
    /\ Constructed /\ last.error.class = "NoSessionError"
    /\ last.error.code = "SESSION_ERROR"

\* the number of HTTP calls that are out
Pending == BagCardinality(inflight)
\* the step being taken ends a call of an HTTP method, after its HTTP call
\* (Answered) or without one (Refused)
Answered == last'.op \in HttpMethods /\ last'.net
Refused == last'.op \in HttpMethods /\ ~last'.net
Failed == Has(last', "raw") /\ Has(fetch(last'.raw), "error")

\* C22 as stated: a method sends one HTTP call, or none when a local
\* precondition fails; the step that receives the answer ends the method
\* without sending anything again, and when the call failed that step
\* throws, for every method.
C22_Step ==
    /\ last'.op = "fetch" => Pending' = Pending + 1
    /\ Refused => (Pending' = Pending /\ last'.outcome = "throw")
    /\ Answered => Pending' = Pending - 1
    /\ (Answered /\ Failed) => last'.outcome = "throw"
C22_OneCallFailureSurfaced == [][C22_Step]_vars

\* C22: a method sends one HTTP call, or none when a local precondition
\* fails; the step that receives the answer ends the method without sending
\* anything again (no retry), and when the call failed that step throws,
\* except in listPayments, which returns the empty list.
C22_AmendedStep ==
    /\ last'.op = "fetch" => Pending' = Pending + 1
    /\ Refused => (Pending' = Pending /\ last'.outcome = "throw")
    /\ Answered => Pending' = Pending - 1
    /\ (Answered /\ Failed) =>
         IF last'.op = "listPayments"
         THEN last'.outcome = "ok" /\ last'.value = <<>>
         ELSE last'.outcome = "throw"
C22_OneCallNoRetry == [][C22_AmendedStep]_vars

\* a transport failure ended cancelPayment with nothing left in flight
C22_Witness ==
    /\ last.op = "cancelPayment" /\ last.outcome = "throw"
    /\ last.raw.kind = "throw" /\ last.error = "ECONNREFUSED"
    /\ inflight = EmptyBag

\* the headers the caller handed to the method that made the last HTTP call:
\* only request() takes any
CallerHeaders == IF last.by = "request" THEN last.arg ELSE NoHeaders
Carries(name, value) == name \in DOMAIN last.headers /\ last.headers[name] = value
SentByRequest ==
    last.by = "request" =>
        /\ Carries("X-Session-Token", sessionToken)
        /\ \A name \in DOMAIN CallerHeaders \ {"X-Session-Token"} :
               Carries(name, CallerHeaders[name])

AdapterGivenFailure ==
    /\ last.op \in HttpMethods
    /\ Has(last, "raw")
    /\ (last.raw.kind = "throw" \/ ~last.raw.ok)
NonEmptyField(body, field) ==
    body.type = "object" /\ Has(body.val, field) /\ body.val[field] # ""
\* the error string the adapter is said to give for a failure
NormalizedError(raw) ==
    IF raw.kind = "throw"
    THEN IF raw.isError THEN raw.message ELSE NetworkErrorMsg
    ELSE IF NonEmptyField(raw.body, "error") THEN raw.body.val.error
    ELSE IF NonEmptyField(raw.body, "detail") THEN raw.body.val.detail
    ELSE RequestFailedMsg

\* C24: the adapter never propagates an exception and normalizes a failure to
\* one error string: for a non-2xx response the body's error field if
\* non-empty, else its detail field if non-empty, else the generic message;
\* for a thrown value its message, or the generic network-error message when
\* it is not an error object
C24_FailureNormalized ==
    AdapterGivenFailure => fetch(last.raw) = [error |-> NormalizedError(last.raw)]

\* a non-2xx response without an error field but with a detail field was
\* normalized to the detail
C24_Witness ==
    /\ AdapterGivenFailure
    /\ last.raw.kind = "response"
    /\ last.raw.body = Obj([error |-> "", detail |-> "det"])
    /\ fetch(last.raw) = [error |-> "det"]
    /\ last.outcome = "throw" /\ last.error = "det"

\* C25: isTransactionConfirmed performs exactly one status query; it returns
\* true if and only if the query reports "confirmed" or "finalized", and it
\* returns false, never raising, when the query reports anything else or
\* throws
C25_SingleShot ==
    wallet.op = "isTransactionConfirmed" =>
        /\ wallet.rpc = 1
        /\ wallet.pc = "done" =>
             /\ wallet.outcome = "ok"
             /\ wallet.result = (/\ Has(wallet, "status")
                                 /\ wallet.status \in {"confirmed", "finalized"})

\* the status query threw and isTransactionConfirmed returned false
C25_Witness ==
    /\ wallet.op = "isTransactionConfirmed" /\ wallet.pc = "done"
    /\ Has(wallet, "caught") /\ wallet.caught.isError
    /\ wallet.rpc = 1
    /\ wallet.outcome = "ok" /\ wallet.result = FALSE

\* the methods that return an unsigned transaction
BuildMethods == {"createPaymentTransaction", "createPaymentFromDetails"}
\* the recipient, amount and memo the caller asked for
AskedRecipient ==
    IF wallet.op = "createPaymentFromDetails" THEN wallet.details.recipient_address
    ELSE wallet.params.recipientAddress
AskedAmount ==
    IF wallet.op = "createPaymentFromDetails" THEN wallet.details.amount_lamports
    ELSE wallet.params.amountLamports
AskedMemo ==
    IF wallet.op = "createPaymentFromDetails" THEN wallet.details.reference
    ELSE wallet.params.memo

\* C26: a transaction returned by createPaymentTransaction has exactly two
\* instructions in fixed order, first the transfer from the payer to the
\* recipient of the exact amount in lamports, then the memo instruction
\* carrying the memo string as it was given; its fee payer is the payer and
\* its recent blockhash is set.  createPaymentFromDetails returns the same
\* transaction with the payment's reference as memo.
C26_TwoInstructions ==
    (Completed(BuildMethods) /\ wallet.outcome = "ok") =>
        LET transaction == wallet.result IN
        /\ Len(transaction.instructions) = 2
        /\ transaction.instructions[1].program = "system.transfer"
        /\ transaction.instructions[1].fromPubkey = wallet.payer
        /\ transaction.instructions[1].toPubkey = AskedRecipient
        /\ transaction.instructions[1].lamports = AskedAmount
        /\ transaction.instructions[2].program = "memo"
        /\ transaction.instructions[2].data = AskedMemo
        /\ transaction.feePayer = wallet.payer
        /\ Has(transaction, "recentBlockhash")
        /\ AskedRecipient \in ValidAddresses

\* createPaymentFromDetails returned a transaction whose memo is the
\* reference of the payment details
C26_Witness ==
    /\ Completed({"createPaymentFromDetails"}) /\ wallet.outcome = "ok"
    /\ wallet.payer = "payer2"
    /\ wallet.details.reference = "payment-ref-123"
    /\ wallet.details.amount_lamports = 1000000000
    /\ wallet.result.instructions[2].data = "payment-ref-123"
    /\ wallet.result.instructions[1].lamports = 1000000000
    /\ wallet.result.feePayer = "payer2"

\* C27: a request() that succeeds decrements calls_remaining of the session
\* that is current when it completes, also when that session was installed
\* while the call was in flight and is not the one whose token the call
\* carried; when there is no session at that point, nothing is decremented.
C27_Step ==
    (last'.op = "request" /\ last'.outcome = "ok") =>
        /\ sessionToken' = sessionToken
        /\ currentSession' =
             IF currentSession = NoSession THEN NoSession
             ELSE [currentSession EXCEPT !.calls_remaining = @ - 1]
C27_CurrentSessionCounted == [][C27_Step]_vars

\* a request() sent with the token of one session succeeded after another
\* session had been installed, and the new session was charged for it
C27_Witness ==
    /\ last.op = "request" /\ last.outcome = "ok"
    /\ currentSession # NoSession
    /\ last.token # currentSession.token
    /\ last.token # sessionToken
    /\ served = 1
    /\ currentSession.calls_remaining = installed - 1

\* the token of the current session record, absent when there is no record
RecordToken == IF currentSession = NoSession THEN Undef ELSE Get(currentSession, "token")
\* the step wrote the stored token, the record's token or the presence of
\* the record
SessionWritten ==
    \/ sessionToken' # sessionToken
    \/ RecordToken' # RecordToken
    \/ (currentSession' = NoSession) # (currentSession = NoSession)
\* the step was setSession, clearSession, or the return of a successful
\* verifyPayment or simulatePayment
SessionWriter ==
    \/ last'.op \in {"setSession", "clearSession"}
    \/ last'.op \in {"verifyPayment", "simulatePayment"} /\ last'.outcome = "ok"
\* the step belongs to a method that leaves the token alone
TokenKept ==
    (\/ last'.op \in {"createPayment", "getPaymentStatus", "cancelPayment",
                      "listPayments", "request"}
     \/ last'.op = "fetch") => sessionToken' = sessionToken
C28_Step == (SessionWritten => SessionWriter) /\ TokenKept

\* C28 as stated: the stored token always equals the token of the current
\* session record and the token and the record are absent together; only
\* setSession, clearSession and a successful verifyPayment or simulatePayment
\* write them, and the other methods never change the token
C28_TokenAndRecordTogether ==
    /\ [](sessionToken = RecordToken)
    /\ []((sessionToken = Undef) <=> (currentSession = NoSession))
    /\ [][C28_Step]_vars

\* C28: the stored token always equals the token of the current session
\* record, and is absent whenever there is no record (a record without a
\* token is possible); only setSession, clearSession and a successful
\* verifyPayment or simulatePayment write the token or the record's token,
\* and createPayment, getPaymentStatus, cancelPayment, listPayments and
\* request never change the token
C28_TokenMirrorsRecord ==
    /\ [](sessionToken = RecordToken)
    /\ [](currentSession = NoSession => sessionToken = Undef)
    /\ [][C28_Step]_vars

\* verifyPayment installed the session of a response: the stored token is
\* the token of the new record
C28_Witness ==
    /\ last.op = "verifyPayment" /\ last.outcome = "ok"
    /\ currentSession # NoSession
    /\ sessionToken = "t2" /\ currentSession.token = "t2"

\* the step just taken completed an HTTP method on a 2xx response whose body
\* is null or false
FalsyAnswered ==
    /\ last.op \in HttpMethods
    /\ Has(last, "raw")
    /\ last.raw.kind = "response" /\ last.raw.ok
    /\ last.raw.body \in FalsyBodies
C29_Step == (last'.op = "request" /\ FalsyAnswered') => currentSession' = currentSession

\* C29: a 2xx response whose body is null or another falsy value is a
\* failure for every method but listPayments, which returns the empty list:
\* the method throws its own generic message, and request() leaves
\* calls_remaining as it was
C29_FalsyBodyIsFailure ==
    /\ [](FalsyAnswered =>
            IF last.op = "listPayments"
            THEN last.outcome = "ok" /\ last.value = <<>>
            ELSE /\ last.outcome = "throw"
                 /\ last.error = Fallback(last.op))
    /\ [][C29_Step]_vars

\* request() threw 'Request failed' on a 2xx response with the body `false`
\* while the session still had calls left
C29_Witness ==
    /\ last.op = "request" /\ FalsyAnswered
    /\ last.raw.body = FalseBody
    /\ last.outcome = "throw" /\ last.error = RequestFailedMsg
    /\ currentSession # NoSession /\ currentSession.calls_remaining = installed
    /\ installed > 0

\* the session fields as they are after the step and as they were before it
SessionKept == sessionToken' = sessionToken /\ currentSession' = currentSession
\* the session made of the four fields of a response body
SessionOf(body) ==
    [token |-> Get(body, "token"), reference_id |-> body.reference_id,
     expires_at |-> body.expires_at, calls_remaining |-> body.calls_remaining]
C30_Step ==
    /\ (last'.op = "verifyPayment" /\ last'.outcome = "ok") =>
          /\ currentSession' = SessionOf(last'.value)
          /\ sessionToken' = Get(last'.value, "token")
    /\ (last'.op = "verifyPayment" /\ last'.outcome = "throw") => SessionKept
    /\ (/\ last'.op = "simulatePayment" /\ last'.outcome = "ok"
        /\ ~(last'.value.success /\ Truthy(Get(last'.value, "token"))))
          => SessionKept

\* C30: verifyPayment returns on every 2xx response whose body is not
\* falsy, and then replaces the session by the one made of the response's
\* fields, whether or not its success field is true and whether or not it
\* has a token; simulatePayment installs nothing unless both hold; a
\* verifyPayment that throws leaves the session as it was
C30_VerifyAlwaysInstalls ==
    /\ []((/\ last.op = "verifyPayment" /\ Has(last, "raw")
           /\ last.raw.kind = "response" /\ last.raw.ok
           /\ last.raw.body \notin FalsyBodies) => last.outcome = "ok")
    /\ [][C30_Step]_vars

\* verifyPayment installed the session of a response that reports no success
\* and carries no token
C30_Witness ==
    /\ last.op = "verifyPayment" /\ last.outcome = "ok"
    /\ ~last.value.success /\ ~Has(last.value, "token")
    /\ currentSession # NoSession
    /\ currentSession.reference_id = last.value.reference_id
    /\ currentSession.token = Undef /\ sessionToken = Undef
====
